---- MODULE Spec2Model ----
(***************************************************************************)
(* Model of the OREKA backend: the KPI engine (kpi_calculations.py), the   *)
(* record model (models.py) and the file processor (upload.py).            *)
(*                                                                         *)
(* The engine computes with Python's decimal.Decimal under the default     *)
(* context: every arithmetic result is the exact result rounded to Prec    *)
(* significant digits (ROUND_HALF_EVEN); quantize rounds to a fixed number *)
(* of fractional digits (ROUND_HALF_UP).  A Decimal is modelled as a sign  *)
(* and its decimal expansion in groups of three digits ("limbs", 0..999),  *)
(* IntLimbs groups before the point and FracLimbs after it, and all of the *)
(* arithmetic is computed on that expansion.                               *)
(***************************************************************************)
EXTENDS Integers, Sequences, FiniteSets, TLC

\* fn, args, out: the engine function called, its arguments, its outcome
\* storage: the JSON files of the storage directory, by file name
\* now: the clock, in instants; uploads: the responses to the uploads so far
\* resp: the response to the last request
\* pdf_stream, pc, loop_i, res, exc: the argument of process_pdf_text, its
\* position, and its locals i, res and e; calls: the outcomes of its calls of
\* the completion service; slept: its waits; result: its outcome
VARIABLES fn, args, out, storage, now, uploads, resp,
          pdf_stream, pc, loop_i, res, exc, calls, slept, result

extractor == <<pdf_stream, pc, loop_i, res, exc, calls, slept, result>>

vars == <<fn, args, out, storage, now, uploads, resp, extractor>>

(***************************************************************************)
(* decimal.Decimal                                                         *)
(***************************************************************************)
\* groups of three digits kept before and after the decimal point
IntLimbs == 2
FracLimbs == 11
\* decimal.getcontext().prec, the default context of the decimal module
Prec == 28

NL == IntLimbs + FracLimbs
Base == 10 * 10 * 10

RECURSIVE Pow10(_)
Pow10(k) == IF k <= 0 THEN 1 ELSE 10 * Pow10(k - 1)

RECURSIVE FirstNZ(_, _)
\* the first place at or after i that holds a nonzero limb, Len(a) + 1 if none
FirstNZ(a, i) ==
  IF i > Len(a) THEN i ELSE IF a[i] # 0 THEN i ELSE FirstNZ(a, i + 1)

RECURSIVE LastNZ(_, _)
\* the last place at or before i that holds a nonzero limb, 0 if none
LastNZ(a, i) ==
  IF i < 1 THEN 0 ELSE IF a[i] # 0 THEN i ELSE LastNZ(a, i - 1)

RECURSIVE Carry(_, _, _, _)
Carry(r, i, c, acc) ==
  IF i < 1 THEN acc
  ELSE Carry(r, i - 1, (r[i] + c) \div Base, <<(r[i] + c) % Base>> \o acc)

\* carries (and borrows) propagated from the last place to the first
Norm(r) == Carry(r, Len(r), 0, <<>>)

\* the digits a rounded after digit p, counted from the first digit of the
\* first limb (sticky: a nonzero rest below the last limb): a discarded part
\* above a half rounds up, a half rounds up (halfUp) or to even
RoundAt(a, p, sticky, halfUp) ==
  LET L == Len(a)
  IN  IF p >= 3 * L THEN a
      ELSE LET lp   == (p - 1) \div 3 + 1
               u    == Pow10(2 - ((p - 1) % 3))
               low  == a[lp] % u
               head == IF u > 1 THEN low ELSE a[lp + 1]
               half == IF u > 1 THEN u \div 2 ELSE Base \div 2
               rest == sticky \/ FirstNZ(a, IF u > 1 THEN lp + 1 ELSE lp + 2) <= L
               up   == \/ head > half
                       \/ head = half /\ rest
                       \/ head = half /\ ~rest
                            /\ (halfUp \/ (a[lp] \div u) % 2 = 1)
               cut  == [i \in 1..L |->
                         IF i < lp THEN a[i]
                         ELSE IF i = lp THEN a[lp] - low + (IF up THEN u ELSE 0)
                         ELSE 0]
           IN  IF up THEN Norm(cut) ELSE cut

\* the context's rounding: to Prec significant digits, ties to even
RoundPrec(a, sticky) ==
  LET f == FirstNZ(a, 1)
  IN  IF f > Len(a) THEN a
      ELSE LET lead == IF a[f] >= 100 THEN 1 ELSE IF a[f] >= 10 THEN 2 ELSE 3
           IN  RoundAt(a, 3 * (f - 1) + lead + Prec - 1, sticky, FALSE)

ZeroDigits == [i \in 1..NL |-> 0]
Mk(neg, d) == [neg |-> neg /\ FirstNZ(d, 1) <= NL, d |-> d]

RECURSIVE MagCmpFrom(_, _, _)
MagCmpFrom(a, b, i) ==
  IF i > NL THEN 0
  ELSE IF a[i] > b[i] THEN 1
  ELSE IF a[i] < b[i] THEN -1
  ELSE MagCmpFrom(a, b, i + 1)

\* -1, 0, 1 as the magnitude of a is below, equal to, above that of b
MagCmp(a, b) == MagCmpFrom(a, b, 1)

\* the comparisons of Decimal: -1, 0, 1
DecCmp(x, y) ==
  IF x.neg = y.neg THEN (IF x.neg THEN MagCmp(y.d, x.d) ELSE MagCmp(x.d, y.d))
  ELSE IF x.neg THEN -1 ELSE 1

DecNeg(x) == Mk(~x.neg, x.d)

\* Decimal.__add__: the exact sum, rounded by the context
DecAdd(x, y) ==
  IF x.neg = y.neg
  THEN Mk(x.neg, RoundPrec(Norm([i \in 1..NL |-> x.d[i] + y.d[i]]), FALSE))
  ELSE IF MagCmp(x.d, y.d) >= 0
       THEN Mk(x.neg, RoundPrec(Norm([i \in 1..NL |-> x.d[i] - y.d[i]]), FALSE))
       ELSE Mk(y.neg, RoundPrec(Norm([i \in 1..NL |-> y.d[i] - x.d[i]]), FALSE))

\* Decimal.__sub__
DecSub(x, y) == DecAdd(x, DecNeg(y))

RECURSIVE MulRow(_, _, _, _)
\* a[i] * b[k - i] summed over the nonzero places i..NL of a
MulRow(a, b, k, i) ==
  IF i > NL THEN 0
  ELSE (IF k - i >= 1 /\ k - i <= NL THEN a[i] * b[k - i] ELSE 0)
         + MulRow(a, b, k, FirstNZ(a, i + 1))

\* Decimal.__mul__: the exact product (2 * NL limbs, the units at limb
\* 2 * IntLimbs), rounded by the context
DecMul(x, y) ==
  LET sparse == IF LastNZ(x.d, NL) - FirstNZ(x.d, 1)
                     <= LastNZ(y.d, NL) - FirstNZ(y.d, 1) THEN x.d ELSE y.d
      other  == IF sparse = x.d THEN y.d ELSE x.d
      f      == FirstNZ(sparse, 1)
      raw    == [k \in 1..(2 * NL) |-> MulRow(sparse, other, k, f)]
      long   == RoundPrec(Norm(raw), FALSE)
  IN  Mk(x.neg # y.neg, [i \in 1..NL |-> long[IntLimbs + i]])

RECURSIVE Limbs2Int(_, _, _, _)
Limbs2Int(a, i, last, v) ==
  IF i > last THEN v ELSE Limbs2Int(a, i + 1, last, Base * v + a[i])

RECURSIVE LongDiv(_, _, _, _, _, _)
\* long division of the limbs x by D from place i to place top (zeros past
\* the end of x): the quotient limbs and the last remainder
LongDiv(x, D, i, top, rem, acc) ==
  IF i > top THEN [q |-> acc, rem |-> rem]
  ELSE LET t == Base * rem + (IF i <= Len(x) THEN x[i] ELSE 0)
       IN  LongDiv(x, D, i + 1, top, t % D, Append(acc, t \div D))

\* Decimal.__truediv__ for a divisor y # 0 of at most 6 significant digits:
\* y = D * Base^(-s), x / D by long division and the point moved s limbs;
\* the quotient, taken Prec digits past the model's last limb, is rounded by
\* the context
DecDiv(x, y) ==
  LET first == FirstNZ(y.d, 1)
      last  == LastNZ(y.d, NL)
      D     == Limbs2Int(y.d, first, last, 0)
      s     == last - IntLimbs
      QL    == NL + Prec \div 3 + 2
      r     == LongDiv(x.d, D, 1, QL + s, 0, <<>>)
      quo   == [j \in 1..QL |-> IF j + s < 1 THEN 0 ELSE r.q[j + s]]
      rnd   == RoundPrec(quo, r.rem # 0)
  IN  Mk(x.neg # y.neg, [j \in 1..NL |-> rnd[j]])

\* Decimal.quantize(Decimal("0.0..01"), rounding=ROUND_HALF_UP) to `places`
\* fractional digits: a discarded part of a half or more rounds the
\* magnitude up
Quantize(x, places) == Mk(x.neg, RoundAt(x.d, 3 * IntLimbs + places, FALSE, TRUE))

\* Decimal(n) for an int n
DecOfInt(n) ==
  LET m == IF n < 0 THEN -n ELSE n
  IN  Mk(n < 0, [i \in 1..NL |->
                   IF i > IntLimbs \/ IntLimbs - i > 2 THEN 0
                   ELSE (m \div Pow10(3 * (IntLimbs - i))) % Base])

\* the Decimal of n thousandths, Decimal("n/1000") written out
DecMilli(n) ==
  LET m == IF n < 0 THEN -n ELSE n
  IN  Mk(n < 0, [i \in 1..NL |->
                   IF i > IntLimbs + 1 \/ IntLimbs + 1 - i > 2 THEN 0
                   ELSE (m \div Pow10(3 * (IntLimbs + 1 - i))) % Base])

\* Decimal(str(f)) for a float f, held by the model as its number of
\* thousandths: str() prints the shortest decimal that reads back as f, and
\* Decimal() takes that text digit for digit
DecOfFloat(f) == DecMilli(f)

\* Decimal("0"), also Decimal() of defaultdict(Decimal)
DecZero == Mk(FALSE, ZeroDigits)

\* how a call ends: it returns a value or raises an exception
Pending == [status |-> "pending"]
Returned(v) == [status |-> "returned", value |-> v]
Raised(e) == [status |-> "raised", exc |-> e]

\* Optional[...]: None, or a value
None == <<>>
Some(x) == <<x>>

(***************************************************************************)
(* kpi_calculations.py                                                     *)
(***************************************************************************)
\* _q2 under ROUND_HALF_EVEN, the rounding of the decimal context
_q2_half_even(x) == Mk(x.neg, RoundAt(x.d, 3 * IntLimbs + 2, FALSE, FALSE))

\* _q2: quantize(Q2, rounding=ROUND_HALF_UP), Q2 = Decimal("0.01")
_q2(x) == Quantize(x, 2)

\* _q4: quantize(Q4, rounding=ROUND_HALF_UP), Q4 = Decimal("0.0001")
_q4(x) == Quantize(x, 4)

\* d[k] += v on a defaultdict(Decimal)
DictAdd(m, k, v) ==
  IF k \in DOMAIN m THEN [m EXCEPT ![k] = DecAdd(@, v)]
  ELSE [j \in DOMAIN m \cup {k} |-> IF j = k THEN DecAdd(DecZero, v) ELSE m[j]]

\* the accumulators of kpi_pos_only before its loop
PosAcc0 ==
  [rev_total |-> DecZero, by_area |-> <<>>, by_payment |-> <<>>,
   receipts |-> {}, discount_numer |-> DecZero, discount_denom |-> DecZero]

\* an iteration that assigns rev_total instead of adding to it
PosStepOverwrite(acc, l, price_list) ==
  LET tp == DecOfFloat(l.total_price)
  IN  [acc EXCEPT !.rev_total = tp,
                  !.by_area = DictAdd(@, l.area, tp),
                  !.by_payment = DictAdd(@, l.payment_method, tp),
                  !.receipts = @ \cup {l.receipt_id}]

\* one iteration of `for l in pos`
PosStep(acc, l, price_list) ==
  LET tp         == DecOfFloat(l.total_price)
      has_prices == price_list # None /\ DOMAIN price_list[1] # {}
      matched    == has_prices /\ l.item_name \in DOMAIN price_list[1]
      theo       == price_list[1][l.item_name]
      qty        == DecOfInt(l.quantity)
      actual     == DecDiv(tp, qty)
  IN  [rev_total      |-> DecAdd(acc.rev_total, tp),
       by_area        |-> DictAdd(acc.by_area, l.area, tp),
       by_payment     |-> DictAdd(acc.by_payment, l.payment_method, tp),
       receipts       |-> acc.receipts \cup {l.receipt_id},
       discount_numer |->
           IF matched /\ DecCmp(theo, actual) > 0
           THEN DecAdd(acc.discount_numer, DecMul(DecSub(theo, actual), qty))
           ELSE acc.discount_numer,
       discount_denom |->
           IF matched THEN DecAdd(acc.discount_denom, DecMul(theo, qty))
           ELSE acc.discount_denom]

RECURSIVE PosLoop(_, _, _, _)
\* the loop of kpi_pos_only over pos[i..], in the order of the list
PosLoop(acc, pos, i, price_list) ==
  IF i > Len(pos) THEN acc
  ELSE PosLoop(PosStep(acc, pos[i], price_list), pos, i + 1, price_list)

\* kpi_pos_only dividing by the number of lines, not of distinct receipts
PosRawPerLine(pos, price_list) ==
  LET acc == PosLoop(PosAcc0, pos, 1, price_list)
      n   == Len(pos)
  IN  [rev_total     |-> acc.rev_total,
       by_area       |-> acc.by_area,
       by_payment    |-> acc.by_payment,
       receipts      |-> acc.receipts,
       avg_receipt   |-> DecDiv(acc.rev_total, DecOfInt(IF n > 1 THEN n ELSE 1)),
       discount_rate |-> IF DecCmp(acc.discount_denom, DecZero) > 0
                         THEN Some(DecDiv(acc.discount_numer, acc.discount_denom))
                         ELSE None]

\* kpi_pos_only up to its return statement: the accumulators, avg_receipt
\* and discount_rate, all still unrounded
PosRaw(pos, price_list) ==
  LET acc == PosLoop(PosAcc0, pos, 1, price_list)
      n   == Cardinality(acc.receipts)
  IN  [rev_total     |-> acc.rev_total,
       by_area       |-> acc.by_area,
       by_payment    |-> acc.by_payment,
       receipts      |-> acc.receipts,
       avg_receipt   |-> DecDiv(acc.rev_total, DecOfInt(IF n > 1 THEN n ELSE 1)),
       discount_rate |-> IF DecCmp(acc.discount_denom, DecZero) > 0
                         THEN Some(DecDiv(acc.discount_numer, acc.discount_denom))
                         ELSE None]

\* the dictionary kpi_pos_only returns
PosResult(raw) ==
  [revenue_total      |-> _q2(raw.rev_total),
   revenue_by_area    |-> [k \in DOMAIN raw.by_area |-> _q2(raw.by_area[k])],
   revenue_by_payment |-> [k \in DOMAIN raw.by_payment |-> _q2(raw.by_payment[k])],
   receipt_count      |-> Cardinality(raw.receipts),
   average_receipt    |-> _q2(raw.avg_receipt),
   discount_rate      |-> IF raw.discount_rate # None
                          THEN Some(_q4(raw.discount_rate[1])) ELSE None]

kpi_pos_only(pos, price_list) == PosResult(PosRaw(pos, price_list))

\* Optional[str] of the record model: the tagged area of a record
HasArea(p) == p.area # None

\* `out = revenue_by_area` without the copy: the same object under two names
DictAlias(heap, r) == [heap |-> heap, ref |-> r]

\* dict.copy() of the dict held at heap[r]: a new object with the same items
DictCopy(heap, r) == [heap |-> Append(heap, heap[r]), ref |-> Len(heap) + 1]

RECURSIVE SalesLoop(_, _, _, _)
\* the loop of add_sales_invoices over sales_inv[i..]: each iteration stores
\* out.get(si.area, Decimal("0")) + Decimal(str(si.amount)) in the dict `o`
SalesLoop(heap, o, sales_inv, i) ==
  IF i > Len(sales_inv) THEN heap
  ELSE LET si  == sales_inv[i]
           old == IF si.area \in DOMAIN heap[o] THEN heap[o][si.area] ELSE DecZero
           new == DecAdd(old, DecOfFloat(si.amount))
           d   == [k \in DOMAIN heap[o] \cup {si.area} |->
                     IF k = si.area THEN new ELSE heap[o][k]]
       IN  SalesLoop([heap EXCEPT ![o] = d], o, sales_inv, i + 1)

\* add_sales_invoices on the caller's dict, object 1 of the heap: what it
\* returns, and the caller's dict after the call
add_sales_invoices(revenue_by_area, sales_inv) ==
  LET c == DictCopy(<<revenue_by_area>>, 1)
      h == SalesLoop(c.heap, c.ref, sales_inv, 1)
  IN  [ret |-> h[c.ref], revenue_by_area |-> h[1]]

RECURSIVE DictSum(_, _, _)
\* sum(d.values(), start) over the keys S
DictSum(d, S, start) ==
  IF S = {} THEN start
  ELSE LET k == CHOOSE k \in S : TRUE
       IN  DictSum(d, S \ {k}, DecAdd(start, d[k]))

\* the dict `clean` of _normalized_weights: v is not None and Decimal(v) > 0
CleanWeights(alloc_basis) ==
  LET keep == {k \in DOMAIN alloc_basis :
                 alloc_basis[k] # None /\ DecCmp(alloc_basis[k][1], DecZero) > 0}
  IN  [k \in keep |-> alloc_basis[k][1]]

\* _normalized_weights: the dict returned, or the ValueError raised
_normalized_weights(alloc_basis) ==
  LET clean == CleanWeights(alloc_basis)
      total == DictSum(clean, DOMAIN clean, DecZero)
  IN  IF DecCmp(total, DecZero) <= 0 THEN Raised("ValueError")
      ELSE Returned([k \in DOMAIN clean |-> DecDiv(clean[k], total)])

\* an iteration that books an untagged purchase under "Other"
CogsStepOther(acc, p) ==
  LET amount == DecOfFloat(p.amount)
  IN  IF HasArea(p)
      THEN [acc EXCEPT !.cogs_area = DictAdd(@, p.area[1], amount)]
      ELSE [acc EXCEPT !.cogs_area = DictAdd(@, "Other", amount)]

\* one iteration of `for p in purch`
CogsStep(acc, p) ==
  LET amount == DecOfFloat(p.amount)
  IN  IF HasArea(p)
      THEN [acc EXCEPT !.cogs_area = DictAdd(@, p.area[1], amount)]
      ELSE [acc EXCEPT !.undirected = DecAdd(@, amount)]

RECURSIVE CogsLoop(_, _, _)
\* the loop of compute_cogs over purch[i..]
CogsLoop(acc, purch, i) ==
  IF i > Len(purch) THEN acc
  ELSE CogsLoop(CogsStep(acc, purch[i]), purch, i + 1)

\* the guard of the allocation step: `undirected > 0 and alloc_basis`, a dict
\* being true when it is not None and not empty
Allocates(undirected, alloc_basis) ==
  /\ DecCmp(undirected, DecZero) > 0
  /\ alloc_basis # None
  /\ DOMAIN alloc_basis[1] # {}

\* `cogs_area[area] += undirected * w` for every item of weights
Allocate(cogs_area, undirected, weights) ==
  [a \in DOMAIN cogs_area \cup DOMAIN weights |->
     IF a \in DOMAIN weights
     THEN DecAdd(IF a \in DOMAIN cogs_area THEN cogs_area[a] ELSE DecZero,
                 DecMul(undirected, weights[a]))
     ELSE cogs_area[a]]

\* compute_cogs: the dict returned, or the ValueError of _normalized_weights
compute_cogs(purch, alloc_basis) ==
  LET acc == CogsLoop([cogs_area |-> <<>>, undirected |-> DecZero], purch, 1)
  IN  IF Allocates(acc.undirected, alloc_basis)
      THEN LET w == _normalized_weights(alloc_basis[1])
           IN  IF w.status = "raised" THEN w
               ELSE Returned(Allocate(acc.cogs_area, acc.undirected, w.value))
      ELSE Returned(acc.cogs_area)

DictGet(d, k, default) == IF k \in DOMAIN d THEN d[k] ELSE default

\* the difference gross_margin_by_area rounds, for area a
GrossRaw(rev_by_area, cogs_by_area, a) ==
  DecSub(DictGet(rev_by_area, a, DecZero), DictGet(cogs_by_area, a, DecZero))

gross_margin_by_area(rev_by_area, cogs_by_area) ==
  [a \in DOMAIN rev_by_area \cup DOMAIN cogs_by_area |->
     _q2(GrossRaw(rev_by_area, cogs_by_area, a))]

\* the difference operating_margin_total rounds
OperatingRaw(gross_total, labor, fixed, other) ==
  DecSub(DecSub(DecSub(gross_total, labor), fixed), other)

operating_margin_total(gross_total, labor, fixed, other) ==
  _q2(OperatingRaw(gross_total, labor, fixed, other))

\* roi_monthly reporting zero instead of an absent ratio
roi_monthly_zero(operating_profit, capital_value) ==
  IF DecCmp(capital_value, DecZero) > 0
  THEN Some(_q4(DecDiv(operating_profit, capital_value))) ELSE Some(DecZero)

roi_monthly(operating_profit, capital_value) ==
  IF DecCmp(capital_value, DecZero) > 0
  THEN Some(_q4(DecDiv(operating_profit, capital_value))) ELSE None

inventory_turnover(cogs_total, avg_stock) ==
  IF DecCmp(avg_stock, DecZero) > 0
  THEN Some(_q4(DecDiv(cogs_total, avg_stock))) ELSE None

inventory_coverage_days(stock_value, avg_daily_consumption) ==
  IF DecCmp(avg_daily_consumption, DecZero) > 0
  THEN Some(Quantize(DecDiv(stock_value, avg_daily_consumption), 1)) ELSE None

(***************************************************************************)
(* The callers of the engine: a call is drawn with its arguments, then it  *)
(* returns or raises.                                                      *)
(***************************************************************************)
\* the longest list of records passed to the engine
MaxLines == 2

\* models.POSLine, the fields the engine reads: total_price in thousandths
Line(item, qty, price, area, pay, rid) ==
  [item_name |-> item, quantity |-> qty, total_price |-> price,
   area |-> area, payment_method |-> pay, receipt_id |-> rid]

POSLines ==
  { Line("Pizza", 3, 5000, "Restaurant", "CARD", "R2"),
    Line("Pizza", 3, 6000, "Restaurant", "CARD", "R2"),
    Line("Pizza", 3, 9000, "Bar", "CARD", "R1"),
    Line("Beer", 1, 5000, "Bar", "CASH", "R1"),
    Line("Beer", 1, 4800, "Bar", "CARD", "R1"),
    Line("Beer", 1, 3, "Bar", "CASH", "R1"),
    Line("Beer", 1, 3, "Restaurant", "CARD", "R2"),
    Line("Beer", 1, 2505, "Bar", "CASH", "R3"),
    Line("Beer", 1, 0, "Other", "CASH", "R3") }

\* price_list: None, empty, without a sold item, a zero price, full prices
PriceLists ==
  { None,
    Some(<<>>),
    Some([n \in {"Wine"} |-> DecMilli(9000)]),
    Some([n \in {"Beer"} |-> DecZero]),
    Some([n \in {"Pizza", "Beer"} |->
            IF n = "Pizza" THEN DecMilli(2600) ELSE DecMilli(5000)]) }

SeqsUpTo(S, n) == UNION {[1..k -> S] : k \in 0..n}

\* a dict from the items of S, a set of <<key, value>>
DictOf(S) == [k \in {e[1] : e \in S} |-> (CHOOSE e \in S : e[1] = k)[2]]

\* models.SalesInvoice, models.PurchaseInvoice: amount in thousandths
SalesInvoices ==
  { [area |-> "Bar", amount |-> 10000], [area |-> "Events", amount |-> 3335],
    [area |-> "Bar", amount |-> 5], [area |-> "Other", amount |-> 0] }

PurchaseInvoices ==
  { [area |-> Some("Bar"), amount |-> 40000],
    [area |-> Some("Restaurant"), amount |-> 10500],
    [area |-> Some("Events"), amount |-> 0],
    [area |-> None, amount |-> 100000],
    [area |-> None, amount |-> 5],
    [area |-> None, amount |-> 0] }

RevenueMaps ==
  { <<>>,
    DictOf({<<"Bar", DecMilli(25000)>>}),
    DictOf({<<"Bar", DecMilli(25005)>>, <<"Restaurant", DecMilli(20000)>>}) }

CogsMaps ==
  { <<>>,
    DictOf({<<"Bar", DecMilli(40000)>>}),
    DictOf({<<"Events", DecMilli(12345)>>, <<"Bar", DecMilli(25125)>>}),
    DictOf({<<"Bar", DecDiv(DecMilli(100000), DecOfInt(3))>>}) }

\* alloc_basis: None, empty, without a positive weight, and with one, two
\* and three positive weights
AllocBases ==
  { None,
    Some(<<>>),
    Some(DictOf({<<"Bar", Some(DecZero)>>})),
    Some(DictOf({<<"Bar", Some(DecMilli(-1000))>>, <<"Events", None>>})),
    Some(DictOf({<<"Bar", Some(DecMilli(1000))>>})),
    Some(DictOf({<<"Bar", Some(DecMilli(1000))>>, <<"Restaurant", Some(DecMilli(2000))>>})),
    Some(DictOf({<<"Bar", Some(DecMilli(1000))>>, <<"Events", Some(DecMilli(12000))>>,
                 <<"Other", Some(DecMilli(-5000))>>, <<"Catering", None>>})),
    Some(DictOf({<<"Bar", Some(DecMilli(1000))>>, <<"Restaurant", Some(DecMilli(1000))>>,
                 <<"Events", Some(DecMilli(1000))>>})) }

\* amounts passed as Decimal to the margin and ratio functions
Amounts == {DecMilli(n) : n \in {-10000, -2505, 0, 3, 1000, 10000, 20005}}
Denominators == {DecMilli(n) : n \in {-5000, 0, 250, 3000, 64000}}

PosArgs   == [pos : SeqsUpTo(POSLines, MaxLines), price_list : PriceLists]
SalesArgs == [revenue_by_area : RevenueMaps, sales_inv : SeqsUpTo(SalesInvoices, MaxLines)]
NormArgs  == [alloc_basis : {b[1] : b \in AllocBases \ {None}}]
CogsArgs  == [purch : SeqsUpTo(PurchaseInvoices, MaxLines), alloc_basis : AllocBases]
GrossArgs == [rev_by_area : RevenueMaps, cogs_by_area : CogsMaps]
OperArgs  == [gross_total : Amounts, labor : {DecZero, DecMilli(30000)},
              fixed : {DecZero, DecMilli(20005)}, other : {DecZero, DecMilli(1000)}]
RatioArgs == [num : Amounts, den : Denominators]

Functions ==
  [kpi_pos_only |-> PosArgs, add_sales_invoices |-> SalesArgs,
   _normalized_weights |-> NormArgs, compute_cogs |-> CogsArgs,
   gross_margin_by_area |-> GrossArgs, operating_margin_total |-> OperArgs,
   roi_monthly |-> RatioArgs, inventory_turnover |-> RatioArgs,
   inventory_coverage_days |-> RatioArgs]

\* a local of process_pdf_text that no statement has assigned yet
Unbound == [bound |-> FALSE]

\* process_pdf_text not called
ExtractorIdle ==
  /\ pdf_stream = <<>>
  /\ pc = "idle"
  /\ loop_i = 0
  /\ res = Unbound
  /\ exc = Unbound
  /\ calls = <<>>
  /\ slept = <<>>
  /\ result = Pending

\* the service at rest: an empty storage directory and no request served
ServiceIdle ==
  /\ storage = <<>>
  /\ now = 0
  /\ uploads = <<>>
  /\ resp = [endpoint |-> "none", status |-> 0]

Init ==
  /\ fn \in DOMAIN Functions
  /\ args \in Functions[fn]
  /\ out = Pending
  /\ ServiceIdle
  /\ ExtractorIdle

Calling(f) ==
  /\ fn = f
  /\ out = Pending
  /\ UNCHANGED <<fn, args, storage, now, uploads, resp, extractor>>

Call_kpi_pos_only ==
  /\ Calling("kpi_pos_only")
  /\ out' = Returned(kpi_pos_only(args.pos, args.price_list))

Call_add_sales_invoices ==
  /\ Calling("add_sales_invoices")
  /\ out' = Returned(add_sales_invoices(args.revenue_by_area, args.sales_inv))

Call_normalized_weights ==
  /\ Calling("_normalized_weights")
  /\ out' = _normalized_weights(args.alloc_basis)

Call_compute_cogs ==
  /\ Calling("compute_cogs")
  /\ out' = compute_cogs(args.purch, args.alloc_basis)

Call_gross_margin_by_area ==
  /\ Calling("gross_margin_by_area")
  /\ out' = Returned(gross_margin_by_area(args.rev_by_area, args.cogs_by_area))

Call_operating_margin_total ==
  /\ Calling("operating_margin_total")
  /\ out' = Returned(operating_margin_total(args.gross_total, args.labor,
                                            args.fixed, args.other))

Call_roi_monthly ==
  /\ Calling("roi_monthly")
  /\ out' = Returned(roi_monthly(args.num, args.den))

Call_inventory_turnover ==
  /\ Calling("inventory_turnover")
  /\ out' = Returned(inventory_turnover(args.num, args.den))

Call_inventory_coverage_days ==
  /\ Calling("inventory_coverage_days")
  /\ out' = Returned(inventory_coverage_days(args.num, args.den))

Next ==
  \/ Call_kpi_pos_only
  \/ Call_add_sales_invoices
  \/ Call_normalized_weights
  \/ Call_compute_cogs
  \/ Call_gross_margin_by_area
  \/ Call_operating_margin_total
  \/ Call_roi_monthly
  \/ Call_inventory_turnover
  \/ Call_inventory_coverage_days

Spec == Init /\ [][Next]_vars

(***************************************************************************)
(* upload.py and main.py: FileProcessor over its storage directory, and    *)
(* the /upload and /dashboard endpoints.                                   *)
(***************************************************************************)
\* the uploads of one run, and the instants the clock runs through
MaxUploads == 2
MaxClock == 4
\* instants per second of the clock: file names carry the second only
TicksPerSecond == 2

\* a cell of a CSV record as pandas reads it: text, a number, or NaN, which
\* _process_csv stores as None
Str(s) == [t |-> "str", s |-> s, n |-> 0]
Num(n) == [t |-> "num", s |-> "", n |-> n]
Null == [t |-> "null", s |-> "", n |-> 0]

ItemTypes == {"FOOD", "BEV", "OTHER"}
PaymentMethods == {"CARD", "CASH"}
Areas == {"Restaurant", "Bar", "Events", "Catering", "Other"}
\* the texts datetime.fromisoformat accepts once " " is replaced by "T"
IsoTimestamps == {"2024-05-01 12:00:00", "2024-05-01T13:30:00"}
\* the texts int() and float() accept, with their value (in thousandths for
\* float)
Numerals == [n \in {"3", "1"} |-> IF n = "3" THEN 3 ELSE 1]

\* int(cell): the int, or the exception raised
IntOf(c) ==
  IF c.t = "null" THEN Raised("TypeError")
  ELSE IF c.t = "num" THEN Returned(c.n)
  ELSE IF c.s \in DOMAIN Numerals THEN Returned(Numerals[c.s])
  ELSE Raised("ValueError")

\* float(cell): the float in thousandths, or the exception raised
FloatOf(c) ==
  IF c.t = "null" THEN Raised("TypeError")
  ELSE IF c.t = "num" THEN Returned(c.n)
  ELSE IF c.s \in DOMAIN Numerals THEN Returned(1000 * Numerals[c.s])
  ELSE Raised("ValueError")

\* record["timestamp"].replace(" ", "T") and datetime.fromisoformat of it
TimestampOf(c) ==
  IF c.t # "str" THEN Raised("AttributeError")
  ELSE IF c.s \in IsoTimestamps THEN Returned(c.s)
  ELSE Raised("ValueError")

POSColumns ==
  <<"timestamp", "item_type", "item_name", "quantity", "price_per_item",
    "total_price", "payment_method", "area", "receipt_id">>

\* the validation of models.POSLine on the arguments built from the record
POSLineValid(record, quantity, price_per_item, total_price) ==
  /\ record["item_type"].t = "str" /\ record["item_type"].s \in ItemTypes
  /\ record["item_name"].t = "str"
  /\ quantity >= 1
  /\ price_per_item >= 0
  /\ total_price >= 0
  /\ record["payment_method"].t = "str"
  /\ record["payment_method"].s \in PaymentMethods
  /\ record["area"].t = "str" /\ record["area"].s \in Areas
  /\ record["receipt_id"].t = "str"

\* the first column of POSColumns[i..] read by POSLine(...) that the record
\* lacks, 0 if none
RECURSIVE FirstMissing(_, _)
FirstMissing(record, i) ==
  IF i > Len(POSColumns) THEN 0
  ELSE IF POSColumns[i] \notin DOMAIN record THEN i
  ELSE FirstMissing(record, i + 1)

\* the body of the try block of get_computations_summary, its arguments
\* evaluated in the order written: the POSLine built, or the exception
BuildPOSLine(record) ==
  LET miss == FirstMissing(record, 1)
      \* the argument at place k of POSColumns raises before a later
      \* column is found missing
      Before(k) == miss = 0 \/ k < miss
      ts    == TimestampOf(record["timestamp"])
      qty   == IntOf(record["quantity"])
      ppi   == FloatOf(record["price_per_item"])
      total == FloatOf(record["total_price"])
  IN  IF miss = 1 THEN Raised("KeyError")
      ELSE IF ts.status = "raised" THEN ts
      ELSE IF ~Before(4) THEN Raised("KeyError")
      ELSE IF qty.status = "raised" THEN qty
      ELSE IF ~Before(5) THEN Raised("KeyError")
      ELSE IF ppi.status = "raised" THEN ppi
      ELSE IF ~Before(6) THEN Raised("KeyError")
      ELSE IF total.status = "raised" THEN total
      ELSE IF miss # 0 THEN Raised("KeyError")
      ELSE IF ~POSLineValid(record, qty.value, ppi.value, total.value)
           THEN Raised("ValueError")
      ELSE Returned(Line(record["item_name"].s, qty.value, total.value,
                         record["area"].s, record["payment_method"].s,
                         record["receipt_id"].s))

\* `except (ValueError, KeyError, TypeError)`
Caught == {"ValueError", "KeyError", "TypeError"}

RECURSIVE RecordsLoop(_, _, _)
\* `for record in csv_data` from record i on: the POS lines appended, or the
\* exception that leaves the loop
RecordsLoop(pos_lines, csv_data, i) ==
  IF i > Len(csv_data) THEN Returned(pos_lines)
  ELSE LET b == BuildPOSLine(csv_data[i])
       IN  IF b.status = "returned"
           THEN RecordsLoop(Append(pos_lines, b.value), csv_data, i + 1)
           ELSE IF b.exc \in Caught
           THEN RecordsLoop(pos_lines, csv_data, i + 1)
           ELSE b

RECURSIVE FilesLoop(_, _, _)
\* `for file_data in files` from file i on: the counters and POS lines, or
\* the exception that leaves the loop
FilesLoop(acc, files, i) ==
  IF i > Len(files) THEN Returned(acc)
  ELSE LET f == files[i]
       IN  IF f.file_type = "csv"
           THEN LET r == RecordsLoop(acc.pos_lines, f.data, 1)
                IN  IF r.status = "raised" THEN r
                    ELSE FilesLoop([acc EXCEPT !.csv_count = @ + 1,
                                               !.total_records = @ + f.total_records,
                                               !.pos_lines = r.value],
                                   files, i + 1)
           ELSE FilesLoop([acc EXCEPT !.pdf_count = @ + 1], files, i + 1)

RECURSIVE SortedFiles(_)
\* the files of S, newest processed_at first
SortedFiles(S) ==
  IF S = {} THEN <<>>
  ELSE LET newest == CHOOSE f \in S : \A g \in S : g.processed_at <= f.processed_at
       IN  <<newest>> \o SortedFiles(S \ {newest})

\* get_all_processed_files: every stored JSON file, sorted by processed_at
get_all_processed_files(store) == SortedFiles({store[n] : n \in DOMAIN store})

\* the KPI fields of the summary: the defaults, or kpi_pos_only(pos_lines)
\* (float() of its rounded decimals prints the same decimals)
SummaryKpis(pos_lines) ==
  IF pos_lines # <<>> THEN kpi_pos_only(pos_lines, None)
  ELSE [revenue_total |-> DecZero, revenue_by_area |-> <<>>,
        revenue_by_payment |-> <<>>, receipt_count |-> 0,
        average_receipt |-> DecZero, discount_rate |-> None]

\* get_computations_summary: the summary, or the exception it lets through
get_computations_summary(store) ==
  LET files == get_all_processed_files(store)
  IN  \* r: the outcome of the loop over the files, run once
      CHOOSE summary \in
        { IF r.status = "raised" THEN r
          ELSE Returned([total_files |-> Len(files),
                         file_types |-> [csv |-> r.value.csv_count,
                                         pdf |-> r.value.pdf_count],
                         statistics |-> [total_csv_records |-> r.value.total_records,
                                         total_invoices |-> r.value.pdf_count],
                         kpis |-> SummaryKpis(r.value.pos_lines),
                         recent_files |->
                           [i \in 1..(IF Len(files) < 10 THEN Len(files) ELSE 10)
                              |-> files[i].file_name]])
          : r \in {FilesLoop([csv_count |-> 0, pdf_count |-> 0,
                              total_records |-> 0, pos_lines |-> <<>>],
                             files, 1)} } : TRUE

\* the dashboard endpoint: any exception becomes a 500 response
dashboard(store) ==
  CHOOSE response \in
    { IF computations.status = "raised"
      THEN [endpoint |-> "dashboard", status |-> 500,
            detail |-> computations.exc]
      ELSE [endpoint |-> "dashboard", status |-> 200,
            summary |-> computations.value,
            all_files |-> get_all_processed_files(store)]
      : computations \in {get_computations_summary(store)} } : TRUE

\* the /dashboard/files endpoint
get_all_files(store) ==
  LET files == get_all_processed_files(store)
  IN  [endpoint |-> "files", status |-> 200, files |-> files,
       count |-> Len(files)]

\* _save_to_json: the file is named after its type and the second of the
\* clock, and written over a file of that name
_save_to_json(store, data, clock) ==
  LET filename == <<data.file_type, clock \div TicksPerSecond>>
  IN  [n \in DOMAIN store \cup {filename} |->
         IF n = filename THEN data ELSE store[n]]

\* file.filename.lower().split(".")[-1] of the uploaded file names
Extension ==
  [n \in {"pos.csv", "POS.CSV", "invoice.pdf", "notes.txt", ""} |->
     IF n \in {"pos.csv", "POS.CSV"} THEN "csv"
     ELSE IF n = "invoice.pdf" THEN "pdf"
     ELSE IF n = "notes.txt" THEN "txt" ELSE ""]

\* _process_csv and _process_pdf up to the save: the processed data, or the
\* HTTPException(500) raised for contents that cannot be read
Processed(file, clock) ==
  IF ~file.content.readable THEN Raised(500)
  ELSE IF Extension[file.filename] = "csv"
  THEN Returned([file_type |-> "csv", file_name |-> file.filename,
                 processed_at |-> clock,
                 total_records |-> Len(file.content.records),
                 data |-> file.content.records])
  ELSE Returned([file_type |-> "pdf", file_name |-> file.filename,
                 processed_at |-> clock, page_count |-> file.content.pages])

\* process_file: the response and the storage after it
process_file(store, file, clock) ==
  IF file.filename = "" THEN [resp |-> [endpoint |-> "upload", status |-> 400], store |-> store]
  ELSE IF Extension[file.filename] \notin {"csv", "pdf"}
  THEN [resp |-> [endpoint |-> "upload", status |-> 400], store |-> store]
  ELSE LET p == Processed(file, clock)
       IN  IF p.status = "raised"
           THEN [resp |-> [endpoint |-> "upload", status |-> p.exc], store |-> store]
           ELSE [resp |-> [endpoint |-> "upload", status |-> 200, data |-> p.value],
                 store |-> _save_to_json(store, p.value, clock)]

\* a CSV record: its columns and cells
Rec(ts, type, name, qty, ppi, total, pay, area, rid) ==
  [timestamp |-> ts, item_type |-> type, item_name |-> name, quantity |-> qty,
   price_per_item |-> ppi, total_price |-> total, payment_method |-> pay,
   area |-> area, receipt_id |-> rid]

\* the record without the column c
Without(record, c) == [k \in DOMAIN record \ {c} |-> record[k]]

GoodPizza ==
  Rec(Str("2024-05-01 12:00:00"), Str("FOOD"), Str("Pizza"), Num(3), Num(3000),
      Num(9000), Str("CARD"), Str("Restaurant"), Str("R1"))
GoodBeer ==
  Rec(Str("2024-05-01T13:30:00"), Str("BEV"), Str("Beer"), Str("1"), Num(2505),
      Num(2505), Str("CASH"), Str("Bar"), Str("R2"))
NullTimestamp == [GoodBeer EXCEPT !.timestamp = Null]
NumTimestamp == [GoodBeer EXCEPT !.timestamp = Num(20240501)]
BadTimestamp == [GoodPizza EXCEPT !.timestamp = Str("yesterday")]
NullQuantity == [GoodPizza EXCEPT !.quantity = Null]
ZeroQuantity == [GoodBeer EXCEPT !.quantity = Num(0)]
TextPrice == [GoodBeer EXCEPT !.total_price = Str("five")]
BadArea == [GoodPizza EXCEPT !.area = Str("Terrace")]
NoReceipt == Without(GoodPizza, "receipt_id")
NoTimestamp == Without(NullQuantity, "timestamp")

\* the bytes of an upload: a table pandas reads, a document pymupdf opens,
\* or neither
Csv(records) == [readable |-> TRUE, records |-> records, pages |-> 0]
Pdf(pages) == [readable |-> TRUE, records |-> <<>>, pages |-> pages]
Unreadable == [readable |-> FALSE, records |-> <<>>, pages |-> 0]

\* the records of the uploaded CSV files
CsvContents ==
  { <<>>,
    <<GoodPizza, GoodBeer>>,
    <<GoodPizza, NullTimestamp>>,
    <<NumTimestamp, GoodPizza>>,
    <<BadTimestamp, GoodBeer>>,
    <<NullQuantity, ZeroQuantity, GoodPizza>>,
    <<TextPrice, BadArea, GoodBeer>>,
    <<NoReceipt>>,
    <<NoTimestamp>> }

\* the uploaded files: CSV exports, invoices of one or two pages, contents
\* that pandas or pymupdf cannot read, and names the service refuses
UploadFiles ==
  [filename : {"pos.csv"}, content : {Csv(c) : c \in CsvContents}]
    \cup [filename : {"invoice.pdf"}, content : {Pdf(1), Pdf(2)}]
    \cup [filename : {"POS.CSV", "invoice.pdf"}, content : {Unreadable}]
    \cup [filename : {"notes.txt", ""}, content : {Pdf(1)}]

InitUpload ==
  /\ fn = "service"
  /\ args = <<>>
  /\ out = Pending
  /\ ServiceIdle
  /\ ExtractorIdle

\* POST /upload: process_file, its save included; the clock moves on while
\* the request is served
Upload ==
  /\ fn = "service"
  /\ Len(uploads) < MaxUploads
  /\ now < MaxClock
  /\ \E file \in UploadFiles :
       LET r == process_file(storage, file, now)
       IN  /\ storage' = r.store
           /\ resp' = r.resp
           /\ uploads' = Append(uploads, r.resp)
  /\ now' = now + 1
  /\ UNCHANGED <<fn, args, out, extractor>>

\* time passing between two requests
Tick ==
  /\ fn = "service"
  /\ now < MaxClock
  /\ now' = now + 1
  /\ UNCHANGED <<fn, args, out, storage, uploads, resp, extractor>>

\* GET /dashboard
Dashboard ==
  /\ fn = "service"
  /\ resp' = dashboard(storage)
  /\ UNCHANGED <<fn, args, out, storage, now, uploads, extractor>>

\* GET /dashboard/files
GetAllFiles ==
  /\ fn = "service"
  /\ resp' = get_all_files(storage)
  /\ UNCHANGED <<fn, args, out, storage, now, uploads, extractor>>

NextUpload ==
  \/ Upload
  \/ Tick
  \/ Dashboard
  \/ GetAllFiles

SpecUpload == InitUpload /\ [][NextUpload]_vars

(***************************************************************************)
(* pdfExtractor.py: PDFExtractor.process_pdf_text and its calls of the     *)
(* completion service.  A str is the sequence of its characters.           *)
(***************************************************************************)
\* range(4)
Attempts == 4

UpperCase == <<"A", "B", "C", "D", "E", "F", "G", "H", "I", "J", "K", "L", "M", "N", "O", "P", "Q", "R", "S", "T", "U", "V", "W", "X", "Y", "Z">>
LowerCase == <<"a", "b", "c", "d", "e", "f", "g", "h", "i", "j", "k", "l", "m", "n", "o", "p", "q", "r", "s", "t", "u", "v", "w", "x", "y", "z">>

\* str.lower, on the letters A to Z
lower(s) ==
  [k \in 1..Len(s) |->
     IF \E n \in 1..Len(UpperCase) : UpperCase[n] = s[k]
     THEN LowerCase[CHOOSE n \in 1..Len(UpperCase) : UpperCase[n] = s[k]]
     ELSE s[k]]

\* `t in s` on str
Contains(t, s) ==
  \E k \in 0..(Len(s) - Len(t)) : SubSeq(s, k + 1, k + Len(t)) = t

\* a handler that takes every failure for one of capacity
AnyFailure(e) == TRUE

\* `"capacity" in str(e).lower()`
MentionsCapacity(e) == Contains(<<"c", "a", "p", "a", "c", "i", "t", "y">>, lower(e))

\* PROMPT.format(pdf_stream): the template, cut to its last line
Prompt(text) == <<"t", "e", "x", "t", ":", " ">> \o text

\* re.search(r"\{.*\}", content, flags=re.DOTALL): the text from the first
\* "{" to the last "}" after it, or None
Search(content) ==
  LET opens  == {k \in 1..Len(content) : content[k] = "{"}
      first  == CHOOSE k \in opens : \A n \in opens : k <= n
      closes == {k \in 1..Len(content) : content[k] = "}" /\ k > first}
      last   == CHOOSE k \in closes : \A n \in closes : n <= k
  IN  IF opens = {} \/ closes = {} THEN None
      ELSE Some(SubSeq(content, first, last))

\* the lines after the loop: res.choices[0].message.content, the search in
\* it and .group(0)
ReadResponse(r) ==
  IF r = Unbound THEN Raised("UnboundLocalError")
  ELSE IF r.choices = <<>> THEN Raised("IndexError")
  ELSE IF r.choices[1] = None THEN Raised("TypeError")
  ELSE LET m == Search(r.choices[1][1])
       IN  IF m = None THEN Raised("AttributeError") ELSE Returned(m[1])

\* the texts passed to process_pdf_text
PdfTexts == {<<"I", "n", "v", "o", "i", "c", "e", " ", "7">>, <<"{", "}">>}

\* the messages of the exceptions the completion service raises
ErrorMessages ==
  { <<"S", "e", "r", "v", "i", "c", "e", " ", "t", "i", "e", "r", " ", "c", "a", "p", "a", "c", "i", "t", "y", " ", "e", "x", "c", "e", "e", "d", "e", "d">>,
    <<"C", "A", "P", "A", "C", "I", "T", "Y">>,
    <<"O", "v", "e", "r", "C", "a", "p", "a", "c", "i", "t", "y", " ", "4", "2", "9">>,
    <<"U", "n", "a", "u", "t", "h", "o", "r", "i", "z", "e", "d">>,
    <<"c", "a", "p", "a", "c", "i", "t">>,
    <<>> }

\* the responses of the completion service: the content of each choice,
\* None for a choice without content
Responses ==
  { [bound |-> TRUE, choices |-> <<>>],
    [bound |-> TRUE, choices |-> <<None>>],
    [bound |-> TRUE, choices |-> <<Some(<<"{", "\"", "a", "\"", ":", " ", "1", "}">>)>>],
    [bound |-> TRUE, choices |-> <<Some(<<"o", "k", " ", "{", "\"", "a", "\"", ":", " ", "{", "}", "}", " ", "e", "n", "d", "}", ".">>)>>],
    [bound |-> TRUE, choices |-> <<Some(<<"}", " ", "n", "o", " ", "{">>)>>] }

\* a call of mistral.chat.complete: it returns a response or raises
Outcomes ==
  [ok : {TRUE}, response : Responses, message : {<<>>}]
    \cup [ok : {FALSE}, response : {[bound |-> TRUE, choices |-> <<>>]},
          message : ErrorMessages]

InitExtract ==
  /\ fn = "extractor"
  /\ args = <<>>
  /\ out = Pending
  /\ ServiceIdle
  /\ ExtractorIdle

\* process_pdf_text is called: the client is opened and the loop entered
Start ==
  /\ fn = "extractor"
  /\ pc = "idle"
  /\ \E text \in PdfTexts : pdf_stream' = text
  /\ pc' = "try"
  /\ loop_i' = 0
  /\ UNCHANGED <<fn, args, out, storage, now, uploads, resp,
                 res, exc, calls, slept, result>>

\* the last statement of the handler, `if i == 3`
LastAttempt(n) == n = 3

\* one call of mistral.chat.complete in the try block: on success res is
\* bound and the loop left; on failure the handler raises again unless the
\* message mentions capacity
Complete ==
  /\ fn = "extractor"
  /\ pc = "try"
  /\ \E o \in Outcomes :
       /\ calls' = Append(calls, [content |-> Prompt(pdf_stream), ok |-> o.ok,
                                  response |-> o.response, message |-> o.message])
       /\ IF o.ok
          THEN /\ res' = o.response
               /\ pc' = "read"
               /\ UNCHANGED <<exc, result>>
          ELSE /\ exc' = o.message
               /\ IF MentionsCapacity(o.message)
                  THEN pc' = "sleep" /\ UNCHANGED result
                  ELSE pc' = "done" /\ result' = Raised(o.message)
               /\ UNCHANGED res
  /\ UNCHANGED <<fn, args, out, storage, now, uploads, resp,
                 pdf_stream, loop_i, slept>>

\* time.sleep(2 * (i + 1)) and the rest of the handler: the exception is
\* raised after the last attempt; otherwise the loop goes on, and is left
\* when range(4) is exhausted
Sleep ==
  /\ fn = "extractor"
  /\ pc = "sleep"
  /\ slept' = Append(slept, 2 * (loop_i + 1))
  /\ IF LastAttempt(loop_i)
     THEN pc' = "done" /\ result' = Raised(exc) /\ UNCHANGED loop_i
     ELSE IF loop_i + 1 < Attempts
     THEN pc' = "try" /\ loop_i' = loop_i + 1 /\ UNCHANGED result
     ELSE pc' = "read" /\ UNCHANGED <<loop_i, result>>
  /\ UNCHANGED <<fn, args, out, storage, now, uploads, resp,
                 pdf_stream, res, exc, calls>>

\* the lines after the loop
Read ==
  /\ fn = "extractor"
  /\ pc = "read"
  /\ result' = ReadResponse(res)
  /\ pc' = "done"
  /\ UNCHANGED <<fn, args, out, storage, now, uploads, resp,
                 pdf_stream, loop_i, res, exc, calls, slept>>

NextExtract ==
  \/ Start
  \/ Complete
  \/ Sleep
  \/ Read

SpecExtract == InitExtract /\ [][NextExtract]_vars

(***************************************************************************)
(* Reference arithmetic of the claims: exact, on integers (thousandths).   *)
(***************************************************************************)
\* the number of thousandths of the Decimal x (x a multiple of 0.001)
ToMilli(x) == (IF x.neg THEN -1 ELSE 1) * Limbs2Int(x.d, 1, IntLimbs + 1, 0)

\* x is a whole number of thousandths
IsMilli(x) == FirstNZ(x.d, IntLimbs + 2) > NL

\* num / den (num >= 0, den > 0) rounded half up to a whole number
HalfUpDiv(num, den) == (2 * num + den) \div (2 * den)

\* the Decimal of n units of 10^-places (places = 1, 2 or 4)
DecUnits(n, places) ==
  LET m == IF n < 0 THEN -n ELSE n
      k == m * Pow10(6 - places)
  IN  Mk(n < 0, [i \in 1..NL |->
                   IF i = IntLimbs + 2 THEN k % Base
                   ELSE IF i = IntLimbs + 1 THEN (k \div Base) % Base
                   ELSE IF i = IntLimbs THEN (k \div (Base * Base)) % Base
                   ELSE 0])

RECURSIVE SumPrices(_, _)
\* the sum of total_price over pos[i..], in thousandths
SumPrices(pos, i) ==
  IF i > Len(pos) THEN 0 ELSE pos[i].total_price + SumPrices(pos, i + 1)

Permuted(s, p) == [i \in 1..Len(s) |-> s[p[i]]]

PosDone == fn = "kpi_pos_only" /\ out.status = "returned"

\* C1: kpi_pos_only returns revenue_total equal to the sum of total_price
\* over all lines rounded (half up) to 2 fractional digits, and the same
\* revenue_total for every permutation of the input lines.
C1_RevenueTotal ==
  PosDone =>
    /\ out.value.revenue_total
         = DecUnits(HalfUpDiv(SumPrices(args.pos, 1), 10), 2)
    /\ \A p \in Permutations(1..Len(args.pos)) :
         kpi_pos_only(Permuted(args.pos, p), args.price_list).revenue_total
           = out.value.revenue_total

\* two different lines were summed and the sum had to be rounded, on a tie
C1_Witness ==
  /\ PosDone
  /\ Len(args.pos) = 2
  /\ args.pos[1] # args.pos[2]
  /\ SumPrices(args.pos, 1) % 10 = 5
  /\ out.value.revenue_total = DecUnits(HalfUpDiv(SumPrices(args.pos, 1), 10), 2)

ReceiptIds(pos) == {pos[i].receipt_id : i \in 1..Len(pos)}
AtLeastOne(n) == IF n > 1 THEN n ELSE 1

\* C2 as stated: receipt_count is the number of distinct receipt_id values
\* and average_receipt is the currency-rounded quotient of the returned
\* revenue_total by max(receipt_count, 1); with zero receipts
\* average_receipt equals revenue_total.
C2_AsStated ==
  PosDone =>
    LET n == Cardinality(ReceiptIds(args.pos))
        revenue_total == 10 * HalfUpDiv(SumPrices(args.pos, 1), 10)
    IN  /\ out.value.receipt_count = n
        /\ out.value.average_receipt
             = DecUnits(HalfUpDiv(revenue_total, 10 * AtLeastOne(n)), 2)
        /\ n = 0 => out.value.average_receipt = out.value.revenue_total

\* C2, amended: receipt_count is the number of distinct receipt_id values
\* and average_receipt is the currency-rounded quotient of the unrounded sum
\* of total_price by max(receipt_count, 1); with zero receipts
\* average_receipt equals revenue_total.
C2_AverageReceipt ==
  PosDone =>
    LET n == Cardinality(ReceiptIds(args.pos))
    IN  /\ out.value.receipt_count = n
        /\ out.value.average_receipt
             = DecUnits(HalfUpDiv(SumPrices(args.pos, 1), 10 * AtLeastOne(n)), 2)
        /\ n = 0 => out.value.average_receipt = out.value.revenue_total

\* two lines of one receipt were counted once, and the average of a sum with
\* a sub-cent part was rounded
C2_Witness ==
  /\ PosDone
  /\ Len(args.pos) = 2
  /\ out.value.receipt_count = 1
  /\ SumPrices(args.pos, 1) % 10 # 0
  /\ out.value.average_receipt
       = DecUnits(HalfUpDiv(SumPrices(args.pos, 1), 10), 2)

\* the lines of pos whose item_name is in the price list
Matched(pos, prices) == {i \in 1..Len(pos) : pos[i].item_name \in DOMAIN prices}

RECURSIVE SumInts(_, _)
\* the sum of f[i] over the set S
SumInts(f, S) ==
  IF S = {} THEN 0
  ELSE LET i == CHOOSE i \in S : TRUE IN f[i] + SumInts(f, S \ {i})

\* theoretical price x quantity of line i, in thousandths
TheoValue(pos, prices, i) == ToMilli(prices[pos[i].item_name]) * pos[i].quantity

\* the shortfall (theoretical - total_price / quantity) x quantity of line i
\* where the theoretical price is above the actual unit price, else 0
Shortfall(pos, prices, i) ==
  IF TheoValue(pos, prices, i) > pos[i].total_price
  THEN TheoValue(pos, prices, i) - pos[i].total_price ELSE 0

\* C3: discount_rate is None when no price list is given, when no line
\* matches the price list or when the accumulated theoretical value is zero;
\* otherwise it is numerator / denominator rounded to 4 fractional digits,
\* the numerator adding (theoretical - total_price / quantity) x quantity
\* over the matched lines with theoretical > actual, and lies in [0, 1].
C3_DiscountRate ==
  PosDone =>
    LET pl == args.price_list
        m  == IF pl = None THEN {} ELSE Matched(args.pos, pl[1])
        denominator == SumInts([i \in m |-> TheoValue(args.pos, pl[1], i)], m)
        numerator   == SumInts([i \in m |-> Shortfall(args.pos, pl[1], i)], m)
        rate == HalfUpDiv(10000 * numerator, denominator)
    IN  IF pl = None \/ m = {} \/ denominator = 0
        THEN out.value.discount_rate = None
        ELSE /\ out.value.discount_rate = Some(DecUnits(rate, 4))
             /\ rate >= 0 /\ rate <= 10000

CogsDone == fn = "compute_cogs" /\ out.status = "returned"

\* the sum of amount over the records recs[i], i in S, in thousandths
AmountsOf(recs, S) == SumInts([i \in S |-> recs[i].amount], S)

Indices(recs) == 1..Len(recs)
UndirectedIn(purch) == {i \in Indices(purch) : purch[i].area = None}
TaggedIn(purch, a) == {i \in Indices(purch) : purch[i].area = Some(a)}
SoldIn(sales_inv, a) == {i \in Indices(sales_inv) : sales_inv[i].area = a}

\* an allocation basis is supplied and holds at least one positive weight
HasPositiveWeight(basis) ==
  /\ basis # None
  /\ \E k \in DOMAIN basis[1] :
       basis[1][k] # None /\ DecCmp(basis[1][k][1], DecZero) > 0

\* C4: when the undirected pool U is positive and an allocation basis with a
\* positive weight is supplied, the returned buckets sum to the sum of all
\* purchase invoice amounts (the allocated shares sum exactly to U), each
\* share being added to the area's directly tagged COGS.
C4_SharesSumToPool ==
  (/\ CogsDone
   /\ AmountsOf(args.purch, UndirectedIn(args.purch)) > 0
   /\ HasPositiveWeight(args.alloc_basis))
  => DictSum(out.value, DOMAIN out.value, DecZero)
       = DecMilli(AmountsOf(args.purch, Indices(args.purch)))

\* no strictly positive weight: an empty mapping, or weights all <= 0 / None
NoPositiveWeight(basis) ==
  \A k \in DOMAIN basis : basis[k] = None \/ DecCmp(basis[k][1], DecZero) <= 0

\* C5: with a positive undirected pool and a supplied allocation basis that
\* holds no strictly positive weight (empty, or all non-positive),
\* compute_cogs raises a configuration error; _normalized_weights raises for
\* every such mapping.
C5_RaisesWithoutPositiveWeight ==
  /\ (/\ fn = "compute_cogs" /\ out.status # "pending"
      /\ AmountsOf(args.purch, UndirectedIn(args.purch)) > 0
      /\ args.alloc_basis # None
      /\ NoPositiveWeight(args.alloc_basis[1]))
     => out = Raised("ValueError")
  /\ (/\ fn = "_normalized_weights" /\ out.status # "pending"
      /\ NoPositiveWeight(args.alloc_basis))
     => out = Raised("ValueError")

TaggedAreas(purch) ==
  {purch[i].area[1] : i \in {j \in 1..Len(purch) : purch[j].area # None}}

\* C6: without an allocation basis compute_cogs returns exactly the areas of
\* the area-tagged invoices, each with the sum of its tagged amounts; the
\* undirected amounts reach no bucket and nothing is raised.
C6_NoBasisDropsPool ==
  (fn = "compute_cogs" /\ out.status # "pending" /\ args.alloc_basis = None)
  => /\ out.status = "returned"
     /\ DOMAIN out.value = TaggedAreas(args.purch)
     /\ \A a \in DOMAIN out.value :
          out.value[a] = DecMilli(AmountsOf(args.purch, TaggedIn(args.purch, a)))

\* two invoices of one area were summed while a positive undirected amount
\* was left out
C6_Witness ==
  /\ CogsDone /\ args.alloc_basis = None
  /\ Len(args.purch) = 2
  /\ args.purch[1].area # None /\ args.purch[1].amount > 0
  /\ \/ args.purch[2] = args.purch[1]
     \/ args.purch[2].area = None /\ args.purch[2].amount > 0

SalesDone == fn = "add_sales_invoices" /\ out.status = "returned"

\* C7: add_sales_invoices leaves the mapping passed to it unchanged and
\* returns a mapping whose value for every area is the original revenue
\* (zero if absent) plus the sum of the sales invoice amounts of that area.
C7_SalesBlending ==
  SalesDone =>
    LET rev == args.revenue_by_area
        inv == args.sales_inv
    IN  /\ out.value.revenue_by_area = rev
        /\ DOMAIN out.value.ret
             = DOMAIN rev \cup {inv[i].area : i \in 1..Len(inv)}
        /\ \A a \in DOMAIN out.value.ret :
             out.value.ret[a]
               = DecMilli((IF a \in DOMAIN rev THEN ToMilli(rev[a]) ELSE 0)
                            + AmountsOf(inv, SoldIn(inv, a)))

\* an invoice was added to an area that already had revenue, another area
\* was created or kept
C7_Witness ==
  /\ SalesDone
  /\ \E i \in 1..Len(args.sales_inv) :
       /\ args.sales_inv[i].area \in DOMAIN args.revenue_by_area
       /\ args.sales_inv[i].amount > 0
  /\ Cardinality(DOMAIN out.value.ret) > 1
  /\ out.value.ret # args.revenue_by_area

Abs(n) == IF n < 0 THEN -n ELSE n

\* num / den (den > 0) rounded half up, away from zero, to `places`
\* fractional digits
RoundedQuotient(num, den, places) ==
  LET q == HalfUpDiv(Pow10(places) * Abs(ToMilli(num)), ToMilli(den))
  IN  DecUnits(IF num.neg THEN -q ELSE q, places)

RatioPlaces ==
  [roi_monthly |-> 4, inventory_turnover |-> 4, inventory_coverage_days |-> 1]

\* C8: roi_monthly, inventory_turnover and inventory_coverage_days return
\* None (never zero, never an error) whenever their denominator is zero or
\* negative, and the rounded quotient whenever it is positive.
C8_AbsentRatios ==
  (fn \in DOMAIN RatioPlaces /\ out.status # "pending") =>
    /\ out.status = "returned"
    /\ IF DecCmp(args.den, DecZero) <= 0
       THEN out.value = None
       ELSE out.value = Some(RoundedQuotient(args.num, args.den, RatioPlaces[fn]))

\* a zero denominator gave None where the numerator was not zero
C8_Witness ==
  /\ fn = "roi_monthly" /\ out.status = "returned"
  /\ args.den = DecZero /\ args.num # DecZero
  /\ out.value = None

\* the Decimal 5 * 10^-(places + 1), half a unit of the last place kept
HalfUnit(places) ==
  LET p == 3 * IntLimbs + places + 1
  IN  Mk(FALSE, [i \in 1..NL |->
                   IF i = (p - 1) \div 3 + 1 THEN 5 * Pow10(2 - ((p - 1) % 3)) ELSE 0])

\* x has no digit after its first `places` fractional digits
HasPlaces(x, places) ==
  LET p == 3 * IntLimbs + places
      l == (p - 1) \div 3 + 1
  IN  /\ x.d[l] % Pow10(2 - ((p - 1) % 3)) = 0
      /\ FirstNZ(x.d, l + 1) > NL

DecAbs(x) == Mk(FALSE, x.d)

\* r is x rounded to `places` fractional digits, half up: r is a multiple of
\* 10^-places with the sign of x, within half a unit of x, and on a tie the
\* one of larger magnitude
IsHalfUp(x, r, places) ==
  LET diff == DecSub(DecAbs(r), DecAbs(x))
      c    == DecCmp(DecAbs(diff), HalfUnit(places))
  IN  /\ HasPlaces(r, places)
      /\ r.neg => x.neg
      /\ c < 0 \/ (c = 0 /\ ~diff.neg)

\* C9: every monetary output (revenue_total, the values of revenue_by_area
\* and revenue_by_payment, average_receipt, the gross margins, the operating
\* margin) is the value the engine computed rounded half up to 2 fractional
\* digits, and every ratio output (discount_rate, ROI, inventory turnover)
\* that value rounded half up to 4 fractional digits.
C9_RoundingPolicy ==
  /\ PosDone =>
       LET raw == PosRaw(args.pos, args.price_list)
           v   == out.value
       IN  /\ IsHalfUp(raw.rev_total, v.revenue_total, 2)
           /\ IsHalfUp(raw.avg_receipt, v.average_receipt, 2)
           /\ DOMAIN v.revenue_by_area = DOMAIN raw.by_area
           /\ \A k \in DOMAIN raw.by_area :
                IsHalfUp(raw.by_area[k], v.revenue_by_area[k], 2)
           /\ DOMAIN v.revenue_by_payment = DOMAIN raw.by_payment
           /\ \A k \in DOMAIN raw.by_payment :
                IsHalfUp(raw.by_payment[k], v.revenue_by_payment[k], 2)
           /\ (raw.discount_rate = None) = (v.discount_rate = None)
           /\ raw.discount_rate # None =>
                IsHalfUp(raw.discount_rate[1], v.discount_rate[1], 4)
  /\ (fn = "gross_margin_by_area" /\ out.status = "returned") =>
       \A a \in DOMAIN out.value :
         IsHalfUp(GrossRaw(args.rev_by_area, args.cogs_by_area, a), out.value[a], 2)
  /\ (fn = "operating_margin_total" /\ out.status = "returned") =>
       IsHalfUp(OperatingRaw(args.gross_total, args.labor, args.fixed, args.other),
                out.value, 2)
  /\ (fn \in {"roi_monthly", "inventory_turnover"} /\ out.status = "returned"
        /\ out.value # None) =>
       IsHalfUp(DecDiv(args.num, args.den), out.value[1], 4)

\* a monetary tie after an even digit: a revenue of 2.505 was returned as 2.51
C9_Witness ==
  /\ PosDone
  /\ PosRaw(args.pos, args.price_list).rev_total = DecMilli(2505)
  /\ out.value.revenue_total = DecUnits(251, 2)

(***************************************************************************)
(* The dashboard over stored CSV records                                   *)
(***************************************************************************)
\* the POS lines of the records of csv_data[i..] that can be constructed
RECURSIVE WellFormedLines(_, _)
WellFormedLines(csv_data, i) ==
  IF i > Len(csv_data) THEN <<>>
  ELSE LET b == BuildPOSLine(csv_data[i])
       IN  (IF b.status = "returned" THEN <<b.value>> ELSE <<>>)
             \o WellFormedLines(csv_data, i + 1)

\* the POS lines of the well-formed records of files[i..]
RECURSIVE ExpectedLines(_, _)
ExpectedLines(files, i) ==
  IF i > Len(files) THEN <<>>
  ELSE (IF files[i].file_type = "csv" THEN WellFormedLines(files[i].data, 1)
        ELSE <<>>) \o ExpectedLines(files, i + 1)

\* a dashboard response over the storage it was computed from
DashboardDone == fn = "service" /\ resp.endpoint = "dashboard"

\* a stored record whose construction fails
SomeBadRecord ==
  \E n \in DOMAIN storage :
    /\ storage[n].file_type = "csv"
    /\ \E i \in DOMAIN storage[n].data :
         BuildPOSLine(storage[n].data[i]).status = "raised"

\* C10: when the dashboard summary builds POS lines from the stored CSV
\* records, a record whose construction fails for any reason is excluded
\* alone: the summary is still produced, and its KPIs are those of all the
\* other records.
C10_BadRecordSkippedAlone ==
  DashboardDone =>
    /\ resp.status = 200
    /\ resp.summary.kpis =
         SummaryKpis(ExpectedLines(get_all_processed_files(storage), 1))

\* the dashboard was served over a storage holding a record that cannot be
\* constructed next to one that can
C10_Reached ==
  /\ DashboardDone
  /\ SomeBadRecord
  /\ ExpectedLines(get_all_processed_files(storage), 1) # <<>>

(***************************************************************************)
(* The uploads kept by the storage directory                               *)
(***************************************************************************)
\* the places in the list of uploads of those that returned success
Successful == {i \in DOMAIN uploads : uploads[i].status = 200}

\* the processed files a list of files holds
FilesIn(files) == {files[i] : i \in DOMAIN files}

\* C11: after any sequence of successful uploads the dashboard reports all
\* processed files: every upload that returned success is present in
\* get_all_processed_files and total_files is the number of successful
\* uploads, two uploads of one file type within the same second included.
C11_NoUploadLost ==
  (DashboardDone /\ resp.status = 200) =>
    /\ \A i \in Successful : uploads[i].data \in FilesIn(resp.all_files)
    /\ resp.summary.total_files = Cardinality(Successful)

\* the dashboard was served after two successful uploads of one file type
\* that were saved within the same second
C11_Reached ==
  /\ DashboardDone
  /\ resp.status = 200
  /\ \E i, j \in Successful :
       /\ i < j
       /\ uploads[i].data.file_type = uploads[j].data.file_type
       /\ uploads[i].data.processed_at \div TicksPerSecond
            = uploads[j].data.processed_at \div TicksPerSecond

(***************************************************************************)
(* The retries of process_pdf_text                                         *)
(***************************************************************************)
\* call k of the completion service failed with a message that mentions
\* capacity, in any case of letters
CapacityFailure(k) ==
  /\ ~calls[k].ok
  /\ \E n \in 0..(Len(calls[k].message) - 8) :
       lower(SubSeq(calls[k].message, n + 1, n + 8))
         = <<"c", "a", "p", "a", "c", "i", "t", "y">>

\* the waits before attempts 2..n and after attempt n
Waits(n) == [k \in 1..n |-> 2 * k]

\* C12: process_pdf_text calls the completion service at most 4 times per
\* invocation; it waits and retries only after a failure that mentions
\* capacity, and raises that error after the 4th attempt; a failure of any
\* other kind is raised at once with no further attempt; and a response is
\* read only after an attempt has succeeded, and is that attempt's response.
C12_BoundedRetries ==
  LET n == Len(calls)
  IN  /\ n <= 4
      /\ \A k \in 1..(n - 1) : CapacityFailure(k)
      /\ pc = "try" => slept = Waits(n) /\ loop_i = n
      /\ (n > 0 /\ ~calls[n].ok /\ ~CapacityFailure(n)) =>
            pc = "done" /\ result = Raised(calls[n].message)
      /\ (n > 0 /\ CapacityFailure(n) /\ pc = "done") =>
            n = 4 /\ result = Raised(calls[n].message) /\ slept = Waits(4)
      /\ (n > 0 /\ CapacityFailure(n) /\ pc # "done") => n < 4 \/ pc = "sleep"
      /\ pc = "read" => n > 0 /\ calls[n].ok /\ res = calls[n].response
      /\ (pc = "done" /\ n > 0 /\ calls[n].ok) =>
            res = calls[n].response /\ result = ReadResponse(calls[n].response)
      /\ pc = "done" => n > 0

\* four attempts failed for capacity and the error of the fourth was raised
C12_Witness ==
  /\ pc = "done"
  /\ Len(calls) = 4
  /\ CapacityFailure(4)
  /\ result = Raised(calls[4].message)

\* the third attempt succeeded after two failures for capacity and its
\* response was returned
C12_RetrySucceeded ==
  /\ pc = "done"
  /\ Len(calls) = 3
  /\ calls[3].ok
  /\ result.status = "returned"

====
